---------------------------- MODULE Spec2Model ----------------------------
(***************************************************************************)
(* A model of the NES toolkit (src/NES/baseLayers.py, src/NES/misc.py):    *)
(* the loss history recorder, the grid interpolator's memoised derivative  *)
(* fields, the analytic velocity models' lazily cached bounds, the point   *)
(* generators, the activation specifier parsing and the dense block        *)
(* builder.  Every component has its own specification over the shared     *)
(* variables; a component that a specification does not exercise stays in  *)
(* its idle value.                                                         *)
(***************************************************************************)
EXTENDS Integers, Sequences, FiniteSets

VARIABLES
    logs,       \* LossesHolder.logs: metric name -> sequence of values
    delivered,  \* history: the values notified per metric name, in order
    training,   \* whether a training run (a fit call) is in progress
    interp,     \* an Interpolator instance: F, axes, dF, dFunc, LFunc
    builds,     \* history: how often each derived field has been built
    answers,    \* history: first and latest answer per query kind and input
    vel,        \* an analytic velocity model: VerticalGradient or LocAnomaly
    velHist,    \* history: what the constructor got, the first batch evaluated
    gen,        \* a point generator built on vel, or None
    genHist,    \* history: the bounds vel had when gen was constructed
    sample,     \* the latest GradientBased_PDF call: its arguments and result
    actv,       \* an activation specifier, and what was made of it
    dense       \* the latest DenseBody call: its arguments and result

lossVars == <<logs, delivered, training>>
interpVars == <<interp, builds, answers>>
velVars == <<vel, velHist, gen, genHist, sample>>
actVars == <<actv, dense>>
vars == <<lossVars, interpVars, velVars, actVars>>

\* What the operations of one component leave alone: the other components.
LossesOnly == UNCHANGED <<interpVars, velVars, actVars>>
InterpOnly == UNCHANGED <<lossVars, velVars, actVars>>
VelOnly == UNCHANGED <<lossVars, interpVars, actVars>>
ActOnly == UNCHANGED <<lossVars, interpVars, velVars>>

\* Python's None and a value that is not None: an optional value is the empty
\* tuple or the one-element tuple of the value.
None == <<>>
Some(x) == <<x>>
Val(o) == o[1]

-----------------------------------------------------------------------------
(* LossesHolder (baseLayers.py 131-142)                                    *)

\* Longest history a metric is driven to.
MaxLen == 3

MetricNames == {"loss", "val_loss", "lr"}
MetricValues == {3, 5}

\* The notifications: a dict carrying a value for some of the metric names.
LogDicts == UNION {[S -> MetricValues] : S \in SUBSET MetricNames}

\* dict.get(kw): the stored value, or None for a missing key.
DictGet(d, kw) == IF kw \in DOMAIN d THEN Some(d[kw]) ELSE None

\* d[kw] = v on a dict.
DictSet(d, kw, v) ==
    [k \in DOMAIN d \cup {kw} |-> IF k = kw THEN v ELSE d[k]]

\* __init__: the two known keys, each with an empty history.
LossesHolder_init == [k \in {"loss", "val_loss"} |-> <<>>]

\* The body of the loop of on_epoch_end for one item (kw, v).
EpochItemReset(l, kw, v) == DictSet(l, kw, <<v>>)

EpochItem(l, kw, v) ==
    LET l1 == IF DictGet(l, kw) = None THEN DictSet(l, kw, <<>>) ELSE l
    IN  DictSet(l1, kw, Append(l1[kw], v))

\* on_epoch_end: the loop over the items of the notified dict.
RECURSIVE EpochLoop(_, _, _)
EpochLoop(l, d, todo) ==
    IF todo = {} THEN l
    ELSE LET kw == CHOOSE k \in todo : TRUE
         IN  EpochLoop(EpochItem(l, kw, d[kw]), d, todo \ {kw})

on_epoch_end(l, d) == EpochLoop(l, d, DOMAIN d)

LossesInit ==
    /\ logs = LossesHolder_init
    /\ delivered = [k \in MetricNames |-> <<>>]
    /\ training = FALSE

LossesIdle == LossesInit

\* A fit call starts: the callback does not override on_train_begin.
TrainBegin ==
    /\ ~training
    /\ training' = TRUE
    /\ UNCHANGED <<logs, delivered>>
    /\ LossesOnly

TrainEnd ==
    /\ training
    /\ training' = FALSE
    /\ UNCHANGED <<logs, delivered>>
    /\ LossesOnly

EpochEnd ==
    /\ training
    /\ \E d \in LogDicts :
        /\ \A k \in DOMAIN d : Len(delivered[k]) < MaxLen
        /\ logs' = on_epoch_end(logs, d)
        /\ delivered' = [k \in MetricNames |->
                            IF k \in DOMAIN d THEN Append(delivered[k], d[k])
                            ELSE delivered[k]]
    /\ UNCHANGED training
    /\ LossesOnly

NextLosses == TrainBegin \/ EpochEnd \/ TrainEnd

\* C1: the history of every metric name is exactly the values delivered for
\* that name, in notification order; the keys are 'loss', 'val_loss' and the
\* names seen so far; nothing is ever shortened, reordered or reset, also
\* across training runs.
C1_HistoryIsDelivered ==
    /\ DOMAIN logs = {"loss", "val_loss"} \cup {k \in MetricNames : delivered[k] # <<>>}
    /\ \A k \in DOMAIN logs : logs[k] = delivered[k]

\* A second training run has appended to a history of the first run, and a
\* name outside the two initial keys has got its own history.
C1_Witness ==
    /\ training
    /\ Len(delivered["loss"]) = MaxLen
    /\ delivered["loss"][1] # delivered["loss"][2]
    /\ "lr" \in DOMAIN logs
    /\ Len(logs["lr"]) = 1
    /\ logs["val_loss"] = <<>>

-----------------------------------------------------------------------------
(* Interpolator (misc.py 12-79)                                            *)
(* Fields, axes and interpolation options are identities; a derived field  *)
(* or an interpolator is the term built from what the code reads when it   *)
(* builds it, and an answer is the term of the interpolator object asked   *)
(* and the input, so two answers are equal exactly when the same object    *)
(* was asked the same input.                                               *)

Fields == {"F0", "F1"}
AxesSets == {"ax0", "ax1"}
InterpKw == {"linear", "nearest"}
QueryPoints == {"X1", "X2"}
QueryKinds == {"gradient", "laplacian"}

\* scipy's RegularGridInterpolator(axes, values, **interp_kw), and its call.
RegularGridInterpolator(axes, values, kw) ==
    [grid |-> axes, values |-> values, kw |-> kw]

InterpCall(func, X) == <<"interp", func, X>>

\* np.stack(np.gradient(F, *axes), axis=-1)
NpGradientField(F, axes) == <<"gradient", F, axes>>

\* the sum over i of np.gradient(dF[..., i], axes[i], axis=i)
NpLaplaceField(dF, axes) == <<"laplace", dF, axes>>

\* __init__(F, *axes, **interp_kw); the class attributes dF, dFunc and LFunc
\* are None.
Interpolator_init(F, axes, kw) ==
    [F |-> F, axes |-> axes, Func |-> RegularGridInterpolator(axes, F, kw),
     dF |-> None, dFunc |-> None, LFunc |-> None]

\* The guarded build of dF and dFunc, shared by gradient and laplacian.
EnsureGradientRebuild(s, kw) ==
    LET dF == NpGradientField(s.F, s.axes)
    IN  [s EXCEPT !.dF = Some(dF),
                  !.dFunc = Some(RegularGridInterpolator(s.axes, dF, kw))]

EnsureGradient(s, kw) ==
    IF s.dFunc = None
    THEN LET dF == NpGradientField(s.F, s.axes)
         IN  [s EXCEPT !.dF = Some(dF),
                  !.dFunc = Some(RegularGridInterpolator(s.axes, dF, kw))]
    ELSE s

\* The guarded build of LFunc in laplacian.
EnsureLaplacian(s, kw) ==
    IF s.LFunc = None
    THEN [s EXCEPT !.LFunc = Some(
            RegularGridInterpolator(s.axes, NpLaplaceField(Val(s.dF), s.axes), kw))]
    ELSE s

\* gradient(X, **interp_kw): the instance after the call and the answer.
Interpolator_gradient(s, X, kw) ==
    LET s1 == EnsureGradient(s, kw)
    IN  [self |-> s1, ret |-> InterpCall(Val(s1.dFunc), X)]

\* laplacian(X, **interp_kw)
Interpolator_laplacian(s, X, kw) ==
    LET s1 == EnsureGradient(s, kw)
        s2 == EnsureLaplacian(s1, kw)
    IN  [self |-> s2, ret |-> InterpCall(Val(s2.LFunc), X)]

NoAnswers == [k \in QueryKinds |-> [X \in QueryPoints |-> None]]

InterpInit ==
    /\ \E F \in Fields, ax \in AxesSets, kw \in InterpKw :
            interp = Interpolator_init(F, ax, kw)
    /\ builds = [k \in QueryKinds |-> 0]
    /\ answers = [first |-> NoAnswers, last |-> NoAnswers]

InterpIdle ==
    /\ interp = Interpolator_init("F0", "ax0", "linear")
    /\ builds = [k \in QueryKinds |-> 0]
    /\ answers = [first |-> NoAnswers, last |-> NoAnswers]

\* The history of a query: which fields the call built, and its answer.
Recorded(kind, X, before, r) ==
    /\ builds' = [builds EXCEPT
            !["gradient"] = @ + (IF r.self.dFunc # before.dFunc THEN 1 ELSE 0),
            !["laplacian"] = @ + (IF r.self.LFunc # before.LFunc THEN 1 ELSE 0)]
    /\ answers' = [first |-> IF answers.first[kind][X] = None
                             THEN [answers.first EXCEPT ![kind][X] = Some(r.ret)]
                             ELSE answers.first,
                   last |-> [answers.last EXCEPT ![kind][X] = Some(r.ret)]]

GradientQuery ==
    /\ \E X \in QueryPoints, kw \in InterpKw :
        LET r == Interpolator_gradient(interp, X, kw)
        IN  /\ interp' = r.self
            /\ Recorded("gradient", X, interp, r)
    /\ InterpOnly

LaplacianQuery ==
    /\ \E X \in QueryPoints, kw \in InterpKw :
        LET r == Interpolator_laplacian(interp, X, kw)
        IN  /\ interp' = r.self
            /\ Recorded("laplacian", X, interp, r)
    /\ InterpOnly

\* The caller replaces the stored field (interp.F = ...).
ReplaceF ==
    /\ \E F \in Fields \ {interp.F} : interp' = [interp EXCEPT !.F = F]
    /\ UNCHANGED <<builds, answers>>
    /\ InterpOnly

\* The caller replaces the stored axes (interp.axes = ...).
ReplaceAxes ==
    /\ \E ax \in AxesSets \ {interp.axes} : interp' = [interp EXCEPT !.axes = ax]
    /\ UNCHANGED <<builds, answers>>
    /\ InterpOnly

NextInterp == GradientQuery \/ LaplacianQuery \/ ReplaceF \/ ReplaceAxes

Asked(kind) == \E X \in QueryPoints : answers.first[kind][X] # None

\* C2: the gradient field and its interpolator are built exactly once, by the
\* first gradient or laplacian query; the Laplacian interpolator is built
\* exactly once, by the first laplacian query, from the cached gradient
\* field; a repeated query with the same input gets the answer of the first,
\* whatever F, axes or options are by then.
C2_BuiltOnceAndReused ==
    /\ builds["gradient"] = (IF Asked("gradient") \/ Asked("laplacian") THEN 1 ELSE 0)
    /\ builds["laplacian"] = (IF Asked("laplacian") THEN 1 ELSE 0)
    /\ (interp.dFunc # None) <=> (builds["gradient"] = 1)
    /\ (interp.LFunc # None) <=> (builds["laplacian"] = 1)
    /\ interp.dFunc # None => Val(interp.dFunc).values = Val(interp.dF)
    /\ interp.LFunc # None => Val(interp.LFunc).values[2] = Val(interp.dF)
    /\ \A k \in QueryKinds, X \in QueryPoints :
            answers.last[k][X] = answers.first[k][X]

\* Both derived fields are cached, F and the axes have been replaced since,
\* and both queries have been repeated for X1 with the replaced F and axes
\* and with other options than those of the first query.
C2_Witness ==
    /\ interp.dFunc # None
    /\ interp.LFunc # None
    /\ Val(interp.dF)[2] # interp.F
    /\ Val(interp.dF)[3] # interp.axes
    /\ Val(interp.LFunc).grid # interp.axes
    /\ Val(interp.dFunc).kw # Val(interp.LFunc).kw
    /\ \A k \in QueryKinds : answers.last[k]["X1"] # None

-----------------------------------------------------------------------------
(* VerticalGradient (misc.py 81-147) and LocAnomaly (misc.py 149-194)      *)
(* A point is a tuple of integer coordinates; a batch X of shape (..., d)  *)
(* is the set of its rows, which is all that its extrema depend on.        *)

\* Most rows of a batch.
MaxBatch == 2

Dims == {1, 2}
Coords == {0, 1}

PointsOfDim(d) == [1..d -> Coords]
Points == UNION {PointsOfDim(d) : d \in Dims}
Batches ==
    UNION {{X \in SUBSET PointsOfDim(d) : X # {} /\ Cardinality(X) <= MaxBatch} :
            d \in Dims}

\* X.shape[-1]
LastAxis(X) == Len(CHOOSE p \in X : TRUE)

\* ndarray.min() and ndarray.max() over a non-empty collection of numbers.
NpMin(S) == CHOOSE m \in S : \A x \in S : m <= x
NpMax(S) == CHOOSE m \in S : \A x \in S : m >= x

\* X.reshape(-1, X.shape[-1]).min(axis=0) and .max(axis=0)
ColMin(X) == [i \in 1..LastAxis(X) |-> NpMin({p[i] : p \in X})]
ColMax(X) == [i \in 1..LastAxis(X) |-> NpMax({p[i] : p \in X})]

\* VerticalGradient.__init__(v0, a, xmin, xmax); min, max and dim keep the
\* class attributes' None.
VerticalGradient_init(v0, a, xmin, xmax) ==
    [kind |-> "VG", v0 |-> v0, a |-> a, xmin |-> xmin, xmax |-> xmax,
     min |-> None, max |-> None, dim |-> None]

\* V = v0 + a * X[..., -1], per row.
VerticalGradient_V(s, X) == [p \in X |-> s.v0 + s.a * p[Len(p)]]

\* VerticalGradient.__call__(X): the instance after the call and V.
VerticalGradient_call_recompute(s, X) ==
    LET V == VerticalGradient_V(s, X)
        vals == {V[p] : p \in X}
    IN  [self |-> [s EXCEPT !.xmin = Some(ColMin(X)), !.xmax = Some(ColMax(X)),
                            !.dim = Some(LastAxis(X)),
                            !.min = Some(NpMin(vals)), !.max = Some(NpMax(vals))],
         ret |-> V]

VerticalGradient_call(s, X) ==
    LET s1 == IF s.xmin = None THEN [s EXCEPT !.xmin = Some(ColMin(X))] ELSE s
        s2 == IF s1.xmax = None THEN [s1 EXCEPT !.xmax = Some(ColMax(X))] ELSE s1
        s3 == IF s2.dim = None THEN [s2 EXCEPT !.dim = Some(LastAxis(X))] ELSE s2
        V == VerticalGradient_V(s3, X)
        vals == {V[p] : p \in X}
        s4 == IF s3.min = None THEN [s3 EXCEPT !.min = Some(NpMin(vals))] ELSE s3
        s5 == IF s4.max = None THEN [s4 EXCEPT !.max = Some(NpMax(vals))] ELSE s4
    IN  [self |-> s5, ret |-> V]

\* VerticalGradient.gradient(X): zeros but for a in the last coordinate; it
\* reads a and assigns nothing.
VerticalGradient_gradient(s, X) ==
    [self |-> s,
     ret |-> [p \in X |-> [i \in 1..Len(p) |-> IF i = Len(p) THEN s.a ELSE 0]]]

\* VerticalGradient.time(X, xs) and dtime(X, xs): both evaluate self(xs), the
\* source point alone as a batch of one row, before the closed formula; the
\* travel times themselves (arccosh, sqrt) are not modelled.
VerticalGradient_time_of_X(s, X, xs) == VerticalGradient_call(s, X).self

VerticalGradient_time(s, X, xs) == VerticalGradient_call(s, {xs}).self

VerticalGradient_dtime(s, X, xs) == VerticalGradient_call(s, {xs}).self

\* Python's min(a, b) and max(a, b).
PyMin(a, b) == IF b < a THEN b ELSE a
PyMax(a, b) == IF b > a THEN b ELSE a

\* LocAnomaly.__init__(vmin, vmax, mus, sigmas, xmin, xmax)
LocAnomaly_init(vmin, vmax, mus, sigmas, xmin, xmax) ==
    [kind |-> "LA", vmin |-> vmin, vmax |-> vmax, mus |-> mus, sigmas |-> sigmas,
     xmin |-> xmin, xmax |-> xmax,
     min |-> Some(PyMin(vmin, vmax)), max |-> Some(PyMax(vmin, vmax)),
     dim |-> Some(Len(mus))]

\* LocAnomaly.__call__(X): the instance after the call; the Gaussian value
\* itself is not modelled.
LocAnomaly_call(s, X) ==
    LET s1 == IF s.xmin = None THEN [s EXCEPT !.xmin = Some(ColMin(X))] ELSE s
        s2 == IF s1.xmax = None THEN [s1 EXCEPT !.xmax = Some(ColMax(X))] ELSE s1
    IN  s2

\* LocAnomaly.gradient(X) evaluates self.__call__(X).
LocAnomaly_gradient(s, X) == LocAnomaly_call(s, X)

\* The bounds a caller passes to a constructor: none, or the corner 1 of the
\* coordinates, which a batch with a 0 lies outside of.
SuppliedMin(d) == {None, Some([i \in 1..d |-> 1])}
SuppliedMax(d) == {None, Some([i \in 1..d |-> 1])}

VelModels ==
    UNION {
        {VerticalGradient_init(2, a, lo, hi) :
            a \in {-1, 1}, lo \in SuppliedMin(d), hi \in SuppliedMax(d)}
        \cup
        {LocAnomaly_init(v[1], v[2], [i \in 1..d |-> 1], [i \in 1..d |-> 1], lo, hi) :
            v \in {<<1, 3>>, <<3, 1>>}, lo \in SuppliedMin(d), hi \in SuppliedMax(d)}
        : d \in Dims}

NoVelHist(m) ==
    [ctorXmin |-> m.xmin, ctorXmax |-> m.xmax, first |-> None, firstOp |-> "none",
     lastOp |-> "none", wider |-> FALSE]

VelInit ==
    /\ vel \in VelModels
    /\ velHist = NoVelHist(vel)
    /\ gen = None
    /\ genHist = None
    /\ sample = None

VelIdle ==
    /\ vel = VerticalGradient_init(2, 1, None, None)
    /\ velHist = NoVelHist(vel)
    /\ gen = None
    /\ genHist = None
    /\ sample = None

\* Batch X has a row outside the lower bound lo (the upper bound hi).
Below(X, lo) == LastAxis(X) = Len(lo) /\ \E i \in 1..Len(lo) : ColMin(X)[i] < lo[i]
Above(X, hi) == LastAxis(X) = Len(hi) /\ \E i \in 1..Len(hi) : ColMax(X)[i] > hi[i]

\* The history of an operation op that evaluated __call__ on batch X.
Evaluated(op, X) ==
    velHist' = [velHist EXCEPT
        !.first = IF @ = None THEN Some(X) ELSE @,
        !.firstOp = IF @ = "none" THEN op ELSE @,
        !.lastOp = op,
        !.wider = \/ @
                  \/ vel.xmin # None /\ Below(X, Val(vel.xmin))
                  \/ vel.xmax # None /\ Above(X, Val(vel.xmax))]

\* The callers evaluate a model that was given bounds on batches of the
\* bounds' dimension.
Fits(X) ==
    /\ velHist.ctorXmin # None => LastAxis(X) = Len(Val(velHist.ctorXmin))
    /\ velHist.ctorXmax # None => LastAxis(X) = Len(Val(velHist.ctorXmax))

\* A value query on a VerticalGradient model.
VGCall ==
    /\ vel.kind = "VG"
    /\ \E X \in Batches :
        /\ Fits(X)
        /\ vel' = VerticalGradient_call(vel, X).self
        /\ Evaluated("call", X)
    /\ UNCHANGED <<gen, genHist, sample>>
    /\ VelOnly

VGGradient ==
    /\ vel.kind = "VG"
    /\ \E X \in Batches : Fits(X) /\ vel' = VerticalGradient_gradient(vel, X).self
    /\ velHist' = [velHist EXCEPT !.lastOp = "VG.gradient"]
    /\ UNCHANGED <<gen, genHist, sample>>
    /\ VelOnly

\* X - xs[None, :] raises, before anything is evaluated, unless X's last axis
\* is as long as xs.
VGTime ==
    /\ vel.kind = "VG"
    /\ \E X \in Batches, xs \in Points :
        /\ LastAxis(X) = Len(xs)
        /\ Fits(X)
        /\ vel' = VerticalGradient_time(vel, X, xs)
        /\ Evaluated("time", {xs})
    /\ UNCHANGED <<gen, genHist, sample>>
    /\ VelOnly

VGDtime ==
    /\ vel.kind = "VG"
    /\ \E X \in Batches, xs \in Points :
        /\ LastAxis(X) = Len(xs)
        /\ Fits(X)
        /\ vel' = VerticalGradient_dtime(vel, X, xs)
        /\ Evaluated("dtime", {xs})
    /\ UNCHANGED <<gen, genHist, sample>>
    /\ VelOnly

\* A value query on a LocAnomaly model.
LACall ==
    /\ vel.kind = "LA"
    /\ \E X \in Batches :
        /\ Fits(X)
        /\ vel' = LocAnomaly_call(vel, X)
        /\ Evaluated("call", X)
    /\ UNCHANGED <<gen, genHist, sample>>
    /\ VelOnly

LAGradient ==
    /\ vel.kind = "LA"
    /\ \E X \in Batches :
        /\ Fits(X)
        /\ vel' = LocAnomaly_gradient(vel, X)
        /\ Evaluated("LA.gradient", X)
    /\ UNCHANGED <<gen, genHist, sample>>
    /\ VelOnly

-----------------------------------------------------------------------------
(* RegularGrid, Uniform_PDF and GradientBased_PDF (misc.py 237-306)        *)

\* Most points a sampler is asked for.
MaxPts == 12

\* The defaults of GradientBased_PDF.__call__: regular=0.7, in tenths, and
\* random_base=20000.
DefaultRegularTenths == 7
DefaultRandomBase == 20000

RegularTenths == {5, DefaultRegularTenths, 10}
RandomBases == {3, DefaultRandomBase}

\* np.array([xmins, xmaxs]).T.  Two bounds of one length d give the d rows
\* (xmin[i], xmax[i]).  Two None give the object array (None, None).  One
\* None and one array are ragged: numpy, by its version, raises ValueError
\* or gives the object array of the two.
LimitsArrays(xmin, xmax) ==
    IF xmin # None /\ xmax # None /\ Len(Val(xmin)) = Len(Val(xmax))
    THEN {[form |-> "rows",
           data |-> [i \in 1..Len(Val(xmin)) |-> <<Val(xmin)[i], Val(xmax)[i]>>]]}
    ELSE IF xmin = None /\ xmax = None
    THEN {[form |-> "object", data |-> <<xmin, xmax>>]}
    ELSE {[form |-> "ValueError", data |-> <<>>],
          [form |-> "object", data |-> <<xmin, xmax>>]}

\* RegularGrid.__init__(velocity)
RegularGrid_init(velocity) ==
    [kind |-> "RegularGrid", xmins |-> velocity.xmin, xmaxs |-> velocity.xmax]

\* Uniform_PDF.__init__(velocity), given the array np.array made.
Uniform_PDF_init(velocity, limits) == [kind |-> "Uniform_PDF", limits |-> limits]

\* GradientBased_PDF.__init__(velocity), given the array np.array made;
\* grad_func is the bound method velocity.gradient.
GradientBased_PDF_init(velocity, limits) ==
    [kind |-> "GradientBased_PDF", limits |-> limits, grad_func |-> "velocity.gradient"]

\* RegularGrid.__call__(axes): xmins[i] of an unset bound raises TypeError;
\* nothing is assigned.
RegularGrid_call(g, axes) ==
    [self |-> g,
     ret |-> IF g.xmins = None \/ g.xmaxs = None THEN "TypeError" ELSE "points"]

\* Uniform_PDF.__call__(num_points): a None bound raises TypeError; nothing
\* is assigned.
Uniform_PDF_call(g, num_points) ==
    [self |-> g, ret |-> IF g.limits.form = "rows" THEN "points" ELSE "TypeError"]

RECURSIVE Pow(_, _)
Pow(b, e) == IF e = 0 THEN 1 ELSE b * Pow(b, e - 1)

\* int(np.sqrt(x)) of a rational x >= 0 given as num / den
IntSqrt(num, den) ==
    CHOOSE k \in 0..(num + 1) : k * k * den <= num /\ (k + 1) * (k + 1) * den > num

\* Whether the norms of velocity.gradient over the candidates have a positive
\* sum.  VerticalGradient.gradient gives (0, ..., 0, a), but on points of one
\* coordinate the slice X[..., -2:-1] is empty and so is every gradient.
\* LocAnomaly.gradient is nonzero off the centre mus unless vmax = vmin.
GradientNormPositive(velocity, d) ==
    IF velocity.kind = "VG" THEN d >= 2 /\ velocity.a # 0
    ELSE velocity.vmax # velocity.vmin

\* GradientBased_PDF.__call__(num_pts, regular, random_base): the sampler and
\* the velocity model after the call, and the numbers of points returned.
\* Object limits hold a None, which np.linspace(*limi, reg_num) raises on
\* before grad_func is reached; with rows, velocity has both bounds, so the
\* __call__ inside LocAnomaly.gradient caches nothing.
GradientBased_PDF_call_rereading(g, velocity, num_pts, tenths, random_base) ==
    [self |-> [g EXCEPT !.limits = [form |-> "object",
                                    data |-> <<velocity.xmin, velocity.xmax>>]],
     velocity |-> velocity,
     ret |-> [status |-> "TypeError"]]

GradientBased_PDF_call(g, velocity, num_pts, tenths, random_base) ==
    IF g.limits.form # "rows"
    THEN [self |-> g, velocity |-> velocity, ret |-> [status |-> "TypeError"]]
    ELSE
    LET d == Len(g.limits.data)
        reg_num == IntSqrt(num_pts * tenths, 10)
        n_reg == Pow(reg_num, d)
        rand_num == num_pts - reg_num * reg_num
        ret == IF ~GradientNormPositive(velocity, d) \/ rand_num < 0
                  \/ rand_num > random_base
               THEN [status |-> "ValueError"]
               ELSE [status |-> "ok", reg |-> n_reg, rand |-> rand_num,
                     total |-> n_reg + rand_num]
    IN  [self |-> g, velocity |-> velocity, ret |-> ret]

\* The bounds a generator holds.
GenXmin(g) ==
    IF g.kind = "RegularGrid" THEN g.xmins
    ELSE IF g.limits.form = "object" THEN g.limits.data[1]
    ELSE Some([i \in 1..Len(g.limits.data) |-> g.limits.data[i][1]])

GenXmax(g) ==
    IF g.kind = "RegularGrid" THEN g.xmaxs
    ELSE IF g.limits.form = "object" THEN g.limits.data[2]
    ELSE Some([i \in 1..Len(g.limits.data) |-> g.limits.data[i][2]])

Built(g) ==
    /\ gen' = Some(g)
    /\ genHist' = Some([xmin |-> vel.xmin, xmax |-> vel.xmax])
    /\ velHist' = [velHist EXCEPT !.lastOp = "gen.init"]
    /\ UNCHANGED <<vel, sample>>

RegularGridInit ==
    /\ gen = None
    /\ Built(RegularGrid_init(vel))
    /\ VelOnly

\* A constructor that np.array raises in builds no generator.
UniformInit ==
    /\ gen = None
    /\ \E l \in LimitsArrays(vel.xmin, vel.xmax) :
        /\ l.form # "ValueError"
        /\ Built(Uniform_PDF_init(vel, l))
    /\ VelOnly

GradientBasedInit ==
    /\ gen = None
    /\ \E l \in LimitsArrays(vel.xmin, vel.xmax) :
        /\ l.form # "ValueError"
        /\ Built(GradientBased_PDF_init(vel, l))
    /\ VelOnly

\* An invocation of the generator, whatever its kind.
GenCall ==
    /\ gen # None
    /\ \/ /\ Val(gen).kind = "RegularGrid"
          /\ gen' = Some(RegularGrid_call(Val(gen), <<2, 2>>).self)
          /\ vel' = vel
       \/ /\ Val(gen).kind = "Uniform_PDF"
          /\ gen' = Some(Uniform_PDF_call(Val(gen), MaxPts).self)
          /\ vel' = vel
       \/ /\ Val(gen).kind = "GradientBased_PDF"
          /\ \E n \in {0, MaxPts}, b \in RandomBases :
                LET r == GradientBased_PDF_call(Val(gen), vel, n, DefaultRegularTenths, b)
                IN  gen' = Some(r.self) /\ vel' = r.velocity
    /\ velHist' = [velHist EXCEPT !.lastOp = "gen.call"]
    /\ UNCHANGED <<genHist, sample>>
    /\ VelOnly

NextVel ==
    \/ VGCall \/ VGGradient \/ VGTime \/ VGDtime \/ LACall \/ LAGradient
    \/ RegularGridInit \/ UniformInit \/ GradientBasedInit \/ GenCall

\* m is the per-coordinate minimum (maximum) over the rows of batch X.
IsColMin(m, X) ==
    /\ Len(m) = LastAxis(X)
    /\ \A i \in 1..Len(m) : (\E p \in X : p[i] = m[i]) /\ (\A p \in X : m[i] <= p[i])

IsColMax(m, X) ==
    /\ Len(m) = LastAxis(X)
    /\ \A i \in 1..Len(m) : (\E p \in X : p[i] = m[i]) /\ (\A p \in X : m[i] >= p[i])

\* The velocity v0 + a z of a VerticalGradient model m at point p.
VAt(m, p) == m.v0 + m.a * p[Len(p)]

\* C3: a bound supplied at construction is never changed; a bound not
\* supplied is unset until the first value query and from then on is the
\* per-coordinate minimum (maximum) over the first batch, whatever batches
\* follow; for VerticalGradient dim is the first batch's last-axis size and
\* min and max are the extrema of V over the first batch.
C3_BoundsFromFirstBatch ==
    /\ velHist.ctorXmin # None => vel.xmin = velHist.ctorXmin
    /\ velHist.ctorXmax # None => vel.xmax = velHist.ctorXmax
    /\ velHist.first = None =>
        /\ velHist.ctorXmin = None => vel.xmin = None
        /\ velHist.ctorXmax = None => vel.xmax = None
        /\ vel.kind = "VG" => vel.dim = None /\ vel.min = None /\ vel.max = None
    /\ velHist.first # None =>
        LET X1 == Val(velHist.first)
        IN  /\ velHist.ctorXmin = None =>
                vel.xmin # None /\ IsColMin(Val(vel.xmin), X1)
            /\ velHist.ctorXmax = None =>
                vel.xmax # None /\ IsColMax(Val(vel.xmax), X1)
            /\ vel.kind = "VG" =>
                /\ vel.dim = Some(LastAxis(X1))
                /\ vel.min # None /\ vel.max # None
                /\ \E p \in X1 : VAt(vel, p) = Val(vel.min)
                /\ \E p \in X1 : VAt(vel, p) = Val(vel.max)
                /\ \A p \in X1 : Val(vel.min) <= VAt(vel, p) /\ VAt(vel, p) <= Val(vel.max)

\* A VerticalGradient model got xmax but not xmin, cached xmin, dim, min and
\* max from a first value query on two rows, and a later value query was on a
\* batch reaching outside the cached bounds.
C3_Witness ==
    /\ vel.kind = "VG"
    /\ velHist.ctorXmin = None /\ velHist.ctorXmax # None
    /\ velHist.firstOp = "call" /\ velHist.lastOp = "call"
    /\ Cardinality(Val(velHist.first)) = 2
    /\ Val(vel.min) < Val(vel.max)
    /\ velHist.wider

\* C9: a generator holds the bounds the velocity model had when the
\* generator was constructed, whatever has been done to the model or with
\* the generator since.
C9_GeneratorKeepsBounds ==
    gen # None =>
        /\ GenXmin(Val(gen)) = Val(genHist).xmin
        /\ GenXmax(Val(gen)) = Val(genHist).xmax

\* A sampler was built on a model without bounds, the model has cached both
\* bounds since, and the sampler, still without bounds, has been invoked.
C9_Witness ==
    /\ gen # None
    /\ Val(gen).kind = "GradientBased_PDF"
    /\ Val(genHist).xmin = None /\ Val(genHist).xmax = None
    /\ vel.xmin # None /\ vel.xmax # None
    /\ GenXmin(Val(gen)) = None /\ GenXmax(Val(gen)) = None
    /\ velHist.lastOp = "gen.call"

\* After time or dtime as the first evaluation on a model without bounds,
\* the caches hold the source point and its velocity.
SourceCached ==
    (/\ vel.kind = "VG"
     /\ velHist.ctorXmin = None /\ velHist.ctorXmax = None
     /\ velHist.firstOp \in {"time", "dtime"}) =>
        \E xs \in Points :
            /\ Val(velHist.first) = {xs}
            /\ vel.xmin = Some(xs) /\ vel.xmax = Some(xs)
            /\ vel.min = Some(VAt(vel, xs)) /\ vel.max = Some(VAt(vel, xs))
            /\ vel.dim = Some(Len(xs))

\* C10: on a VerticalGradient model built without bounds, time or dtime as
\* the first operation caches xmin = xmax = xs and min = max = V(xs),
\* whatever X is, and no later value query widens them; and a gradient
\* query changes no field of the model in any state.
C10_TravelTimeCaches ==
    /\ []SourceCached
    /\ [][velHist'.lastOp = "VG.gradient" => vel' = vel]_vars

\* time was the first operation, and a later value query was on a batch
\* reaching outside the cached source point.
C10_Witness ==
    /\ vel.kind = "VG"
    /\ velHist.ctorXmin = None /\ velHist.ctorXmax = None
    /\ velHist.firstOp = "time"
    /\ velHist.lastOp = "call"
    /\ velHist.wider
    /\ vel.xmin = vel.xmax

\* Just after a gradient query on a model whose caches are still unset.
C10_GradientAsked ==
    vel.kind = "VG" /\ velHist.lastOp = "VG.gradient" /\ velHist.first = None

-----------------------------------------------------------------------------
(* GradientBased_PDF.__call__ on samplers of one, two and three dimensions *)

SamplerDims == {1, 2, 3}

SamplerModels ==
    UNION {
        {VerticalGradient_init(2, a, Some([i \in 1..d |-> 0]), Some([i \in 1..d |-> 1])) :
            a \in {-1, 1}}
        \cup
        {LocAnomaly_init(1, 3, [i \in 1..d |-> 1], [i \in 1..d |-> 1],
                         Some([i \in 1..d |-> 0]), Some([i \in 1..d |-> 1]))}
        : d \in SamplerDims}

SamplerInit ==
    /\ vel \in SamplerModels
    /\ velHist = NoVelHist(vel)
    /\ gen = None
    /\ genHist = None
    /\ sample = None

\* A call of the sampler, its arguments and result recorded.
SampleCall ==
    /\ gen # None
    /\ Val(gen).kind = "GradientBased_PDF"
    /\ \E n \in 0..MaxPts, t \in RegularTenths, b \in RandomBases :
        LET r == GradientBased_PDF_call(Val(gen), vel, n, t, b)
        IN  /\ gen' = Some(r.self)
            /\ vel' = r.velocity
            /\ sample' = Some([num_pts |-> n, tenths |-> t, random_base |-> b,
                               ret |-> r.ret])
    /\ velHist' = [velHist EXCEPT !.lastOp = "gen.call"]
    /\ UNCHANGED genHist
    /\ VelOnly

NextSampler == GradientBasedInit \/ SampleCall

\* The sampler's dimension, and the count the specification gives for the
\* regular part: reg_num ^ dim with reg_num = floor(sqrt(num_pts * regular)).
SamplerDim == Len(Val(gen).limits.data)
SpecRegular(sm) == Pow(IntSqrt(sm.num_pts * sm.tenths, 10), SamplerDim)

\* C4 as claimed: for a model of any dimension, whenever
\* 0 <= num_pts - reg_num^dim <= random_base, the call returns num_pts
\* points: reg_num^dim regular ones, then num_pts - reg_num^dim random ones.
\* (The models here are those whose gradient norms can be sampled from.)
C4_ReturnsNumPts ==
    (/\ sample # None
     /\ GradientNormPositive(vel, SamplerDim)
     /\ Val(sample).num_pts - SpecRegular(Val(sample)) >= 0
     /\ Val(sample).num_pts - SpecRegular(Val(sample)) <= Val(sample).random_base) =>
        LET sm == Val(sample)
        IN  /\ sm.ret.status = "ok"
            /\ sm.ret.reg = SpecRegular(sm)
            /\ sm.ret.rand = sm.num_pts - SpecRegular(sm)
            /\ sm.ret.total = sm.num_pts

-----------------------------------------------------------------------------
(* ACTS, AdaptiveActivation and Activation (baseLayers.py 12-79)           *)
(* A string is the sequence of its characters; "sup2" stands for the one   *)
(* character SUPERSCRIPT TWO, a digit to str.isdigit that float rejects.   *)

\* Most dash-separated parts of a specifier.
MaxParts == 4

\* The keys of the registry.
ACTS ==
    {<<"t", "a", "n", "h">>,
     <<"a", "t", "a", "n">>,
     <<"s", "i", "g", "m", "o", "i", "d">>,
     <<"s", "o", "f", "t", "p", "l", "u", "s">>,
     <<"r", "e", "l", "u">>,
     <<"e", "l", "u">>,
     <<"e", "x", "p">>,
     <<"l", "i", "n", "e", "a", "r">>,
     <<"g", "a", "u", "s", "s">>,
     <<"s", "w", "i", "s", "h">>,
     <<"l", "a", "p", "l", "a", "c", "e">>}

AsciiDigits == {"0", "1", "2", "3", "4", "5", "6", "7", "8", "9"}

\* The characters str.isdigit accepts, among those of the model.
DigitChars == AsciiDigits \cup {"sup2"}

\* str.split('-'): the parts between the dashes, left to right.
RECURSIVE SplitDashFrom(_, _, _, _)
SplitDashFrom(s, i, cur, parts) ==
    IF i > Len(s) THEN Append(parts, cur)
    ELSE IF s[i] = "-" THEN SplitDashFrom(s, i + 1, <<>>, Append(parts, cur))
    ELSE SplitDashFrom(s, i + 1, Append(cur, s[i]), parts)

SplitDash(s) == SplitDashFrom(s, 1, <<>>, <<>>)

\* sub in s
PyIn(sub, s) ==
    \E i \in 0..(Len(s) - Len(sub)) : SubSeq(s, i + 1, i + Len(sub)) = sub

\* str.isdigit: at least one character, and every character a digit.
PyIsDigit(s) == Len(s) > 0 /\ \A i \in 1..Len(s) : s[i] \in DigitChars

\* The value of a string of ASCII digits.
DigitValue(c) == CHOOSE v \in 0..9 : <<"0", "1", "2", "3", "4", "5", "6", "7", "8", "9">>[v + 1] = c

RECURSIVE DecValue(_)
DecValue(s) ==
    IF s = <<>> THEN 0
    ELSE 10 * DecValue(SubSeq(s, 1, Len(s) - 1)) + DigitValue(s[Len(s)])

\* float(s) of a string that passed isdigit: the decimal value, or ValueError
\* for a digit character that is no decimal digit.
PyFloat(s) ==
    IF \A i \in 1..Len(s) : s[i] \in AsciiDigits
    THEN [status |-> "ok", value |-> DecValue(s)]
    ELSE [status |-> "ValueError", value |-> 0]

\* float(parts[-1]) if parts[-1].isdigit() else 1.0
DegreeOfMarker(parts) ==
    IF PyIsDigit(parts[1])
    THEN PyFloat(parts[Len(parts)])
    ELSE [status |-> "ok", value |-> 1]

DegreeOf(parts) ==
    IF PyIsDigit(parts[Len(parts)])
    THEN PyFloat(parts[Len(parts)])
    ELSE [status |-> "ok", value |-> 1]

Raised(error) == [status |-> error, weights |-> {}]

\* AdaptiveActivation.__init__(act): the layer, or the error raised; weights
\* are the trainable weights registered by add_weight.
AdaptiveActivation_init(act) ==
    LET parts == SplitDash(act)
    IN  IF Len(parts) # 3 THEN Raised("AssertionError")
        ELSE IF parts[2] \notin ACTS THEN Raised("KeyError")
        ELSE IF DegreeOf(parts).status # "ok" THEN Raised(DegreeOf(parts).status)
        ELSE LET adapt == PyIn(<<"a", "d">>, parts[1])
             IN  [status |-> "ok", adapt |-> adapt, act |-> parts[2],
                  n |-> DegreeOf(parts).value,
                  weights |-> IF adapt THEN {"a"} ELSE {}]

\* Activation(act): a registry function, the string itself, or whatever the
\* construction of an AdaptiveActivation gives.
Activation_byMarker(act) ==
    LET parts == SplitDash(act)
    IN  IF Len(parts) = 3 /\ PyIn(<<"a", "d">>, parts[1])
        THEN [kind |-> "AdaptiveActivation", layer |-> AdaptiveActivation_init(act)]
        ELSE IF act \in ACTS THEN [kind |-> "function", name |-> act]
        ELSE [kind |-> "str", value |-> act]

Activation(act) ==
    LET parts == SplitDash(act)
    IN  IF Len(parts) = 1
        THEN IF act \in ACTS THEN [kind |-> "function", name |-> act]
             ELSE [kind |-> "str", value |-> act]
        ELSE [kind |-> "AdaptiveActivation", layer |-> AdaptiveActivation_init(act)]

\* The parts the specifiers are put together from.
PartPool ==
    {<<>>, <<"a", "d">>, <<"t", "a", "n", "h">>, <<"f", "o", "o">>,
     <<"2">>, <<"1", "0">>, <<"0", ".", "5">>, <<"2", ".", "5">>, <<"sup2">>}

PartLists == UNION {[1..k -> PartPool] : k \in 1..MaxParts}

\* '-'.join(parts)
RECURSIVE JoinDash(_)
JoinDash(parts) ==
    IF Len(parts) = 1 THEN parts[1]
    ELSE JoinDash(SubSeq(parts, 1, Len(parts) - 1)) \o <<"-">> \o parts[Len(parts)]

NoDense == None

ActInit ==
    /\ \E pl \in PartLists :
        actv = [parts |-> pl, spec |-> JoinDash(pl), by |-> "nobody", out |-> <<>>]
    /\ dense = NoDense

ActIdle ==
    /\ actv = [parts |-> <<<<>>>>, spec |-> <<>>, by |-> "nobody", out |-> <<>>]
    /\ dense = NoDense

\* AdaptiveActivation(spec) is called.
Construct ==
    /\ actv.by = "nobody"
    /\ actv' = [actv EXCEPT !.by = "AdaptiveActivation",
                            !.out = Some(AdaptiveActivation_init(actv.spec))]
    /\ UNCHANGED dense
    /\ ActOnly

\* Activation(spec) is called.
Dispatch ==
    /\ actv.by = "nobody"
    /\ actv' = [actv EXCEPT !.by = "Activation",
                            !.out = Some(Activation(actv.spec))]
    /\ UNCHANGED dense
    /\ ActOnly

NextAct == Construct \/ Dispatch

\* The layer (or error) an AdaptiveActivation call has given.
Constructed == actv.by = "AdaptiveActivation"
Layer == Val(actv.out)

\* A non-empty string of decimal digits.
IsDecimal(s) == Len(s) > 0 /\ \A i \in 1..Len(s) : s[i] \in AsciiDigits

\* Numeric text: decimal digits, at least one, around at most one point.
IsNumericText(s) ==
    /\ \A i \in 1..Len(s) : s[i] \in AsciiDigits \cup {"."}
    /\ \E i \in 1..Len(s) : s[i] \in AsciiDigits
    /\ Cardinality({i \in 1..Len(s) : s[i] = "."}) <= 1

\* The value of numeric text is Mantissa / 10 ^ FracDigits.
FracDigits(s) ==
    IF \E i \in 1..Len(s) : s[i] = "."
    THEN Len(s) - (CHOOSE i \in 1..Len(s) : s[i] = ".")
    ELSE 0

Mantissa(s) == DecValue(SelectSeq(s, LAMBDA c : c # "."))

\* C5 as claimed: the degree n is the numeric value of the degree part
\* whenever that part is numeric text ('2', '0.5', '2.5'), and 1.0 when it is
\* not.
C5_DegreeOfNumericText ==
    (Constructed /\ Layer.status = "ok") =>
        LET deg == actv.parts[3]
        IN  IF IsNumericText(deg)
            THEN Layer.n * Pow(10, FracDigits(deg)) = Mantissa(deg)
            ELSE Layer.n = 1

\* C5 as amended: the degree n is the value of the degree part when that part
\* is a non-empty string of decimal digits, and 1.0 for every other degree
\* part, numeric text with a decimal point ('0.5', '2.5') included.
C5_DegreeOfDigits ==
    (Constructed /\ Layer.status = "ok") =>
        LET deg == actv.parts[3]
        IN  IF IsDecimal(deg) THEN Layer.n = DecValue(deg) ELSE Layer.n = 1

\* 'ad-tanh-10' has been constructed with degree 10.
C5_Witness ==
    /\ Constructed
    /\ Layer.status = "ok"
    /\ actv.parts = <<<<"a", "d">>, <<"t", "a", "n", "h">>, <<"1", "0">>>>
    /\ Layer.n = 10

\* 'ad-tanh-0.5' has been constructed, with degree 1.
C5_WitnessPoint ==
    /\ Constructed
    /\ Layer.status = "ok"
    /\ actv.parts[3] = <<"0", ".", "5">>
    /\ Layer.n = 1

\* C6 as claimed: construction succeeds exactly when the specifier has three
\* parts and the middle one is a key of the registry, and a failed
\* construction has registered no weight.
C6_SucceedsIffWellFormed ==
    Constructed =>
        /\ Layer.status = "ok" <=> (Len(actv.parts) = 3 /\ actv.parts[2] \in ACTS)
        /\ Layer.status # "ok" => Layer.weights = {}

\* The specifier has a dash.
HasDash(s) == \E i \in 1..Len(s) : s[i] = "-"

\* C7: a specifier without a dash never raises and gives the registry
\* function of a registered name and the string itself otherwise; a
\* specifier with a dash is always handed to the AdaptiveActivation
\* constructor, with or without the adapt marker.
C7_RoutedByDashes ==
    actv.by = "Activation" =>
        LET out == Val(actv.out)
        IN  IF HasDash(actv.spec)
            THEN /\ out.kind = "AdaptiveActivation"
                 /\ out.layer = AdaptiveActivation_init(actv.spec)
            ELSE IF actv.spec \in ACTS
            THEN out.kind = "function" /\ out.name = actv.spec
            ELSE out.kind = "str" /\ out.value = actv.spec

\* '-tanh-2', a specifier without the adapt marker, has been dispatched and
\* an AdaptiveActivation without a weight constructed for it.
C7_Witness ==
    /\ actv.by = "Activation"
    /\ actv.parts = <<<<>>, <<"t", "a", "n", "h">>, <<"2">>>>
    /\ Val(actv.out).kind = "AdaptiveActivation"
    /\ Val(actv.out).layer.status = "ok"
    /\ Val(actv.out).layer.weights = {}

-----------------------------------------------------------------------------
(* DenseBody (baseLayers.py 85-113)                                        *)

\* Most hidden layers asked for.
MaxNl == 3

Widths == {5, 7}

\* nu as the caller passes it: an int, a list or a tuple.
NuInputs ==
    {[type |-> "int", int |-> k, seq |-> <<>>] : k \in Widths}
    \cup {[type |-> "list", int |-> 0, seq |-> q] :
            q \in UNION {[1..k -> Widths] : k \in 0..MaxNl}}
    \cup {[type |-> "tuple", int |-> 0, seq |-> <<5, 7>>]}

\* The specifiers given as act and out_act: the two defaults, a plain
\* registered name, and one with an unregistered name.
AdGauss1 == <<"a", "d", "-", "g", "a", "u", "s", "s", "-", "1">>
AdSigmoid1 == <<"a", "d", "-", "s", "i", "g", "m", "o", "i", "d", "-", "1">>
PlainTanh == <<"t", "a", "n", "h">>
AdFoo1 == <<"a", "d", "-", "f", "o", "o", "-", "1">>

HiddenActs == {AdGauss1, PlainTanh, AdFoo1}
OutActs == {AdSigmoid1, AdFoo1}
KernelInitializers == {None, Some("glorot_normal")}

\* Whether the evaluation of Activation(act) raises.
ActivationRaises(a) == a.kind = "AdaptiveActivation" /\ a.layer.status # "ok"
ActivationError(a) == a.layer.status

\* L.Dense(units, activation=activation, **kwargs)
DenseLayer(units, activation, kernel_initializer) ==
    [units |-> units, activation |-> activation,
     kernel_initializer |-> kernel_initializer]

\* The hidden layers: L.Dense(nu[0], ...) and the loop over range(1, nl).
\* nu[0] of an empty list raises IndexError before Activation is evaluated.
HiddenLayers(nus, nl, act, ki) ==
    IF Len(nus) = 0 THEN [status |-> "IndexError", layers |-> <<>>]
    ELSE IF ActivationRaises(Activation(act))
    THEN [status |-> ActivationError(Activation(act)), layers |-> <<>>]
    ELSE [status |-> "ok",
          layers |-> [i \in 1..nl |-> DenseLayer(nus[i], Activation(act), ki)]]

\* DenseBody(inputs, nu, nl, out_dim, act, out_act, **kwargs): how the call
\* ends and the dense layers it has created, in order.
DenseBody(nu, nl, out_dim, act, out_act, kernel_initializer) ==
    LET ki == IF kernel_initializer = None THEN "he_normal" ELSE Val(kernel_initializer)
        nus == IF nu.type = "int" THEN [i \in 1..nl |-> nu.int] ELSE nu.seq
        isList == nu.type \in {"int", "list", "ndarray"}
    IN  IF ~(isList /\ Len(nus) = nl)
        THEN [status |-> "AssertionError", layers |-> <<>>]
        ELSE LET hidden == HiddenLayers(nus, nl, act, ki)
             IN  IF hidden.status # "ok" THEN hidden
                 ELSE IF ActivationRaises(Activation(out_act))
                 THEN [status |-> ActivationError(Activation(out_act)),
                       layers |-> hidden.layers]
                 ELSE [status |-> "ok",
                       layers |-> Append(hidden.layers,
                                         DenseLayer(out_dim, Activation(out_act), ki))]

DenseInit ==
    /\ actv = [parts |-> <<<<>>>>, spec |-> <<>>, by |-> "nobody", out |-> <<>>]
    /\ dense = NoDense

\* A call of DenseBody, its arguments and result recorded.
DenseBuild ==
    /\ \E nu \in NuInputs, nl \in 0..MaxNl, act \in HiddenActs, out_act \in OutActs,
          ki \in KernelInitializers :
        dense' = Some([nu |-> nu, nl |-> nl, out_dim |-> 1, act |-> act,
                       out_act |-> out_act,
                       ret |-> DenseBody(nu, nl, 1, act, out_act, ki)])
    /\ UNCHANGED actv
    /\ ActOnly

NextDense == DenseBuild

\* C8 as claimed: for every nl and nu that pass the validation, exactly nl
\* hidden layers of widths nu[0..nl-1] and then one output layer of width
\* out_dim are created; a sequence nu whose length is not nl fails before any
\* layer is created.  (For activation specifiers that Activation accepts.)
C8_LayersAsAsked ==
    (/\ dense # None
     /\ ~ActivationRaises(Activation(Val(dense).act))
     /\ ~ActivationRaises(Activation(Val(dense).out_act))) =>
        LET d == Val(dense)
            width(i) == IF d.nu.type = "int" THEN d.nu.int ELSE d.nu.seq[i]
        IN  /\ (d.nu.type = "int" \/ (d.nu.type = "list" /\ Len(d.nu.seq) = d.nl)) =>
                /\ d.ret.status = "ok"
                /\ Len(d.ret.layers) = d.nl + 1
                /\ \A i \in 1..d.nl : d.ret.layers[i].units = width(i)
                /\ d.ret.layers[d.nl + 1].units = d.out_dim
            /\ (d.nu.type # "int" /\ Len(d.nu.seq) # d.nl) =>
                d.ret.status = "AssertionError" /\ d.ret.layers = <<>>

-----------------------------------------------------------------------------
(* The specifications: one per component.                                  *)

InitLosses == LossesInit /\ InterpIdle /\ VelIdle /\ ActIdle
SpecLosses == InitLosses /\ [][NextLosses]_vars

InitInterp == InterpInit /\ LossesIdle /\ VelIdle /\ ActIdle
SpecInterp == InitInterp /\ [][NextInterp]_vars

InitVel == VelInit /\ LossesIdle /\ InterpIdle /\ ActIdle
SpecVel == InitVel /\ [][NextVel]_vars

InitSampler == SamplerInit /\ LossesIdle /\ InterpIdle /\ ActIdle
SpecSampler == InitSampler /\ [][NextSampler]_vars

InitAct == ActInit /\ LossesIdle /\ InterpIdle /\ VelIdle
SpecAct == InitAct /\ [][NextAct]_vars

InitDense == DenseInit /\ LossesIdle /\ InterpIdle /\ VelIdle
SpecDense == InitDense /\ [][NextDense]_vars

=============================================================================
